---- MODULE Spec2Model ----
(***************************************************************************)
(* Model of the chat ordering core of coffeeAI: the cart and order stores  *)
(* of database/db_service.py, the cart / checkout workflow of              *)
(* core/order_processor.py, the action extractor, the intent classifier of *)
(* core/llm_utils.py and the orchestrator of core/rag.py.                  *)
(*                                                                         *)
(* Conventions.  Python None, 0 and "" are all falsy; the model writes the *)
(* absent user id as NoUser (0) and the absent session id / payment method *)
(* as the empty string, so that `if not x` is `x = NoUser` / `x = ""`.     *)
(* Every SQL statement goes through execute_query / execute_update, which  *)
(* log and re-raise; a statement that raises is an input of the handler    *)
(* (the record `fail`: the call site, the statement, and for a loop the    *)
(* iteration).  Every execute_update commits on its own, so the statements *)
(* before the one that raises stay in the store.                           *)
(***************************************************************************)
EXTENDS Integers, Sequences, FiniteSets, TLC

VARIABLES
    carts,          \* table carts: user id -> the user's active cart row
    cart_items,     \* table cart_items: user id -> lines of that cart, oldest first
    orders,         \* table orders, in insertion order (row i has id i)
    order_items,    \* table order_items, in insertion order
    last,           \* the last call made on the core: its arguments and
                    \* what it returned
    response,       \* a generated text handed to the extractor (its segments)
    extracted,      \* what the extractor returned for it
    query_arg,      \* a query handed to the pure functions of llm_utils
    classification, \* what classify_intent and extract_payment_method
                    \* returned for it
    procs,          \* requests served side by side: the call each one is in,
                    \* the statement it is at and its local variables
    clock,          \* datetime.now(), in seconds
    order_numbers,  \* column order_number of table orders (row i of orders)
    chat_messages   \* table chat_messages of the session, in insertion order
                    \* (row i has id i)

vars == <<carts, cart_items, orders, order_items, last, response, extracted, query_arg,
          classification, procs, clock, order_numbers, chat_messages>>

concurrent == <<procs, clock, order_numbers>>

-----------------------------------------------------------------------------
(* Bounds and input domains *)

MaxQty == 2         \* largest quantity of a cart line
MaxOrders == 1      \* largest number of rows of table orders
MaxItems == 2       \* longest item list of an extracted action
MaxSegs == 2         \* longest generated text, in segments
MaxWords == 2        \* longest query, in phrases of QueryWords

NoUser == 0
Users == {1}
UserArgs == {NoUser} \cup Users
SessionArgs == {"s1"}
Products == {1}                     \* ids of table products
ProductArgs == Products \cup {9}    \* 9: an id the catalog does not hold
PaymentArgs == {"", "cash", "bitcoin"}     \* absent, valid, invalid
ValidPaymentArgs == {"cash"}

Price(product_id) == 50 * (product_id + 1)

RECURSIVE SumQuantity(_)
SumQuantity(items) ==
    IF items = <<>> THEN 0 ELSE Head(items).quantity + SumQuantity(Tail(items))

RECURSIVE SumTotalPrice(_)
SumTotalPrice(items) ==
    IF items = <<>> THEN 0 ELSE Head(items).total_price + SumTotalPrice(Tail(items))

Reverse(s) == [i \in 1..Len(s) |-> s[Len(s) + 1 - i]]

-----------------------------------------------------------------------------
(* The store seen as one value, and the outcome of a call on it *)

DB == [carts |-> carts, cart_items |-> cart_items,
       orders |-> orders, order_items |-> order_items]

Ok(db, v) == [db |-> db, raised |-> FALSE, value |-> v]
Raise(db) == [db |-> db, raised |-> TRUE, value |-> FALSE]

NoFail == [site |-> "none", stmt |-> "none", k |-> 0]
StmtAt(fail, site) == IF fail.site = site THEN fail.stmt ELSE "none"

-----------------------------------------------------------------------------
(* CartService *)

NewCartRow(session_id) ==
    [exists |-> TRUE, session_id |-> session_id, total_items |-> 0, total_amount |-> 0]

GetOrCreateCart(db, user_id, session_id, f) ==
    IF f = "select_cart" THEN Raise(db)
    ELSE IF db.carts[user_id].exists
    THEN IF session_id /= "" /\ db.carts[user_id].session_id /= session_id
         THEN IF f = "update_session" THEN Raise(db)
              ELSE LET db2 == [db EXCEPT !.carts[user_id].session_id = session_id]
                   IN  Ok(db2, db2.carts[user_id])
         ELSE Ok(db, db.carts[user_id])
    ELSE IF f = "insert_cart" THEN Raise(db)
         ELSE LET db2 == [db EXCEPT !.carts[user_id] = NewCartRow(session_id)]
              IN  Ok(db2, db2.carts[user_id])

UpdateCartTotals(db, user_id, f) ==
    IF f = "update_totals" THEN Raise(db)
    ELSE Ok([db EXCEPT !.carts[user_id].total_items = SumQuantity(db.cart_items[user_id]),
                       !.carts[user_id].total_amount = SumTotalPrice(db.cart_items[user_id])],
            TRUE)

EmptySnapshot == [items |-> <<>>, total_items |-> 0, total_amount |-> 0]

GetCart(db, session_id, user_id, f) ==
    IF user_id = NoUser THEN Ok(db, EmptySnapshot)
    ELSE LET Items(c) ==
                 IF c.raised THEN c
                 ELSE IF f = "select_items" THEN Raise(c.db)
                 ELSE Ok(c.db, [items |-> Reverse(c.db.cart_items[user_id]),
                                total_items |-> c.value.total_items,
                                total_amount |-> c.value.total_amount])
         IN  Items(GetOrCreateCart(db, user_id, session_id, f))

SameLine(items, product_id, selected_size) ==
    {i \in 1..Len(items) : items[i].product_id = product_id
                           /\ items[i].selected_size = selected_size}

NewLine(product_id, quantity, selected_size) ==
    [product_id |-> product_id, quantity |-> quantity, selected_size |-> selected_size,
     unit_price |-> Price(product_id), total_price |-> Price(product_id) * quantity]

WriteItem(items, product_id, quantity, selected_size) ==
    LET existing == SameLine(items, product_id, selected_size)
    IN  IF existing /= {}
        THEN LET i == CHOOSE j \in existing : \A m \in existing : j <= m
                 new_quantity == items[i].quantity + quantity
             IN  [items EXCEPT ![i].quantity = new_quantity,
                               ![i].total_price = Price(product_id) * new_quantity]
        ELSE Append(items, NewLine(product_id, quantity, selected_size))

AddToCart(db, session_id, product_id, quantity, user_id, selected_size, f) ==
    IF user_id = NoUser THEN Raise(db)
    ELSE IF f = "select_product" \/ product_id \notin Products THEN Raise(db)
    ELSE LET Return(t) ==
                 IF t.raised THEN t
                 ELSE GetCart(t.db, session_id, user_id,
                              IF f = "return_get_cart" THEN "select_items" ELSE "none")
             Write(c) ==
                 IF c.raised THEN c
                 ELSE IF f \in {"select_existing", "write_item"} THEN Raise(c.db)
                 ELSE Return(UpdateCartTotals(
                                 [c.db EXCEPT !.cart_items[user_id] =
                                     WriteItem(@, product_id, quantity, selected_size)],
                                 user_id, f))
         IN  Write(GetOrCreateCart(db, user_id, session_id, f))

ClearCart(db, session_id, user_id, f) ==
    IF user_id = NoUser THEN Ok(db, FALSE)
    ELSE LET Return(t, affected_rows) ==
                 IF t.raised THEN t ELSE Ok(t.db, affected_rows > 0)
             Delete(c) ==
                 IF c.raised THEN c
                 ELSE IF f = "delete_items" THEN Raise(c.db)
                 ELSE Return(UpdateCartTotals([c.db EXCEPT !.cart_items[user_id] = <<>>],
                                              user_id, f),
                             Len(c.db.cart_items[user_id]))
         IN  Delete(GetOrCreateCart(db, user_id, session_id, f))

-----------------------------------------------------------------------------
(* OrderService *)

OrderRow(order_id, order_data) ==
    [id |-> order_id,
     user_id |-> order_data.user_id,
     session_id |-> order_data.session_id,
     status |-> order_data.status,
     total_amount |-> order_data.total_amount,
     tax_amount |-> order_data.tax_amount,
     final_amount |-> order_data.final_amount,
     payment_status |-> order_data.payment_status,
     payment_method |-> order_data.payment_method]

OrderItemRow(order_id, item) ==
    [order_id |-> order_id, product_id |-> item.product_id, quantity |-> item.quantity,
     unit_price |-> item.unit_price, total_price |-> item.total_price,
     selected_size |-> item.selected_size]

\* add_order_items: one committed INSERT per item; the k-th may raise.
AddOrderItems(db, order_id, items, f, k) ==
    LET n == Len(items)
        stop == f = "insert_item" /\ k \in 1..n
        done == IF stop THEN k - 1 ELSE n
        rows == [i \in 1..done |-> OrderItemRow(order_id, items[i])]
        db2 == [db EXCEPT !.order_items = @ \o rows]
    IN  IF stop THEN Raise(db2) ELSE Ok(db2, TRUE)

CreateOrder(db, order_data, f, k) ==
    IF f = "insert_order" THEN Raise(db)
    ELSE LET order_id == Len(db.orders) + 1
             Select(a) ==
                 IF a.raised THEN a
                 ELSE IF f = "select_order" THEN Raise(a.db)
                 ELSE Ok(a.db, OrderRow(order_id, order_data))
             Items(db1) ==
                 IF f = "last_insert_id" THEN Raise(db1)
                 ELSE Select(AddOrderItems(db1, order_id, order_data.order_items, f, k))
         IN  Items([db EXCEPT !.orders = Append(@, OrderRow(order_id, order_data))])

-----------------------------------------------------------------------------
(* OrderProcessor: cart actions and cart summary *)

\* add_to_cart returns the dict of get_cart, which has four keys and is truthy
\* whatever the cart holds.
Truthy(cart_result) == DOMAIN cart_result /= {}

NoAction == [has_order_action |-> FALSE, action_type |-> "none", items |-> <<>>]

RECURSIVE AddEachItem(_, _, _, _, _, _, _)
AddEachItem(db, session_id, items, i, user_id, fail, items_added) ==
    IF i > Len(items)
    THEN [db |-> db, raised |-> FALSE, items_added |-> items_added]
    ELSE LET Added(cart_result) ==
                 IF cart_result.raised
                 THEN [db |-> cart_result.db, raised |-> TRUE, items_added |-> items_added]
                 ELSE AddEachItem(cart_result.db, session_id, items, i + 1, user_id, fail,
                                  IF Truthy(cart_result.value)
                                  THEN Append(items_added, items[i]) ELSE items_added)
         IN  Added(AddToCart(db, session_id, items[i].product_id, items[i].quantity,
                             user_id, items[i].size,
                             IF fail.site = "add_to_cart" /\ fail.k = i
                             THEN fail.stmt ELSE "none"))

CartActionSuccess(raised, cart_updated) == ~raised /\ cart_updated

ProcessCartAction(db, session_id, action_data, cart_service, user_id, fail) ==
    IF ~action_data.has_order_action \/ ~cart_service
    THEN [db |-> db, success |-> FALSE, message |-> "", cart_updated |-> FALSE,
          items_added |-> <<>>]
    ELSE LET Result(l, cart_updated) ==
                 [db |-> l.db,
                  success |-> CartActionSuccess(l.raised, cart_updated),
                  message |-> IF l.raised
                              THEN "Sorry, there was an error adding items to your cart: <exception>"
                              ELSE IF cart_updated
                              THEN "Successfully added <n> item(s) to your cart!"
                              ELSE "No items were added to the cart.",
                  cart_updated |-> cart_updated,
                  items_added |-> l.items_added]
             Loop(l) == Result(l, l.items_added /= <<>>)
         IN  Loop(AddEachItem(db, session_id, action_data.items, 1, user_id, fail, <<>>))

ErrorSummary(db) ==
    [db |-> db, kind |-> "error", items |-> <<>>, item_count |-> 0, total |-> 0]

GetCartSummary(db, session_id, cart_service, user_id, f) ==
    IF ~cart_service THEN ErrorSummary(db)
    ELSE LET Summary(g) ==
                 IF g.raised THEN ErrorSummary(g.db)
                 ELSE IF g.value.items = <<>>
                 THEN [db |-> g.db, kind |-> "empty", items |-> <<>>, item_count |-> 0,
                       total |-> 0]
                 ELSE [db |-> g.db, kind |-> "cart", items |-> g.value.items,
                       item_count |-> g.value.total_items, total |-> g.value.total_amount]
         IN  Summary(GetCart(db, session_id, user_id, f))

\* cart_summary.get("empty", True): an error summary has no "empty" key.
SummaryEmpty(cart_summary) == cart_summary.kind /= "cart"

-----------------------------------------------------------------------------
(* OrderProcessor: checkout *)

TaxRatePercent == 18
\* subtotal * 0.18; the catalog prices of the model are multiples of 50, for
\* which 18% is a whole number.
TaxAmount(subtotal) == (subtotal * TaxRatePercent) \div 100

\* create_checkout_summary has no user_id parameter: the cart is read for
\* get_cart_summary's default user_id=None.
CreateCheckoutSummary(db, session_id, cart_service, f) ==
    LET Summary(cart_summary) ==
            IF SummaryEmpty(cart_summary)
            THEN [db |-> cart_summary.db, ready_for_checkout |-> FALSE,
                  message |-> "Your cart is empty. Add some items before checkout!",
                  subtotal |-> 0, tax_amount |-> 0, total_amount |-> 0, item_count |-> 0,
                  items |-> <<>>]
            ELSE [db |-> cart_summary.db, ready_for_checkout |-> TRUE,
                  message |-> "ORDER SUMMARY",
                  subtotal |-> cart_summary.total,
                  tax_amount |-> TaxAmount(cart_summary.total),
                  total_amount |-> cart_summary.total + TaxAmount(cart_summary.total),
                  item_count |-> cart_summary.item_count,
                  items |-> cart_summary.items]
    IN  Summary(GetCartSummary(db, session_id, cart_service, NoUser, f))

SaveResult(db, success, message, order_id, create_called, clear_called) ==
    [db |-> db, success |-> success, message |-> message, order_id |-> order_id,
     create_called |-> create_called, clear_called |-> clear_called]

OrderData(session_id, payment_method, user_id, cart_data) ==
    [user_id |-> user_id,
     session_id |-> session_id,
     status |-> "confirmed",
     total_amount |-> cart_data.total_amount,
     tax_amount |-> TaxAmount(cart_data.total_amount),
     final_amount |-> cart_data.total_amount + TaxAmount(cart_data.total_amount),
     payment_status |-> "pending",
     payment_method |-> payment_method,
     order_items |-> cart_data.items]

SaveChatOrderToDatabase(db, session_id, payment_method, user_id, cart_service, order_service, fail) ==
    IF ~cart_service \/ ~order_service
    THEN SaveResult(db, FALSE, "Required services not available", 0, FALSE, FALSE)
    ELSE LET Cleared(cl, created_order) ==
                 SaveResult(cl.db, TRUE,
                            IF cl.raised THEN "Error creating order: <exception>"
                            ELSE "Order <order_number> created successfully!",
                            created_order.id, TRUE, TRUE)
             Created(c) ==
                 IF c.raised
                 THEN SaveResult(c.db, FALSE, "Error creating order: <exception>", 0,
                                 TRUE, FALSE)
                 ELSE Cleared(ClearCart(c.db, session_id, user_id,
                                        StmtAt(fail, "clear_cart")),
                              c.value)
             Fetched(g) ==
                 IF g.raised
                 THEN SaveResult(g.db, FALSE, "Error creating order: <exception>", 0,
                                 FALSE, FALSE)
                 ELSE IF g.value.items = <<>>
                 THEN SaveResult(g.db, FALSE, "Cart is empty. Cannot create order.", 0,
                                 FALSE, FALSE)
                 ELSE Created(CreateOrder(g.db,
                                          OrderData(session_id, payment_method, user_id,
                                                    g.value),
                                          StmtAt(fail, "create_order"), fail.k))
         IN  Fetched(GetCart(db, session_id, user_id, StmtAt(fail, "get_cart")))

GetAvailablePaymentMethods == <<"cash", "card", "upi", "digital_wallet">>

ValidMethod(payment_method) ==
    \E i \in 1..Len(GetAvailablePaymentMethods) : GetAvailablePaymentMethods[i] = payment_method

CheckoutResult(db, stage, message, summary, methods, order_success, create_called) ==
    [db |-> db, checkout_stage |-> stage, message |-> message,
     ready_for_checkout |-> summary.ready_for_checkout,
     total_amount |-> summary.total_amount, item_count |-> summary.item_count,
     payment_methods |-> methods, order_success |-> order_success,
     create_called |-> create_called]

CheckoutReadyUnchecked(checkout_summary) == TRUE

CheckoutReady(checkout_summary) == checkout_summary.ready_for_checkout

ProcessCheckoutRequest(db, session_id, payment_method, user_id, cart_service, order_service, fail) ==
    LET Saved(order_result, checkout_summary) ==
            IF order_result.success
            THEN CheckoutResult(order_result.db, "completed", "ORDER CONFIRMED!",
                                checkout_summary, <<>>, TRUE, order_result.create_called)
            ELSE CheckoutResult(order_result.db, "summary",
                                "Sorry, there was an error processing your order: <message>",
                                checkout_summary, <<>>, FALSE, order_result.create_called)
        Checkout(checkout_summary) ==
            IF ~CheckoutReady(checkout_summary)
            THEN CheckoutResult(checkout_summary.db, "summary", checkout_summary.message,
                                checkout_summary, <<>>, FALSE, FALSE)
            ELSE IF payment_method = ""
            THEN CheckoutResult(checkout_summary.db, "payment_method", "PAYMENT OPTIONS",
                                checkout_summary, GetAvailablePaymentMethods, FALSE, FALSE)
            ELSE IF ~ValidMethod(payment_method)
            THEN CheckoutResult(checkout_summary.db, "summary",
                                "Invalid payment method. Please choose from: cash, card, upi, digital_wallet",
                                checkout_summary, <<>>, FALSE, FALSE)
            ELSE Saved(SaveChatOrderToDatabase(checkout_summary.db, session_id,
                                               payment_method, user_id, cart_service,
                                               order_service, fail),
                       checkout_summary)
    IN  Checkout(CreateCheckoutSummary(db, session_id, cart_service,
                                       StmtAt(fail, "summary")))

-----------------------------------------------------------------------------
(* Strings: str.lower() and the `in` test *)

UpperCase == "ABCDEFGHIJKLMNOPQRSTUVWXYZ"
LowerCase == "abcdefghijklmnopqrstuvwxyz"

LowerChar(c) ==
    IF \E i \in 1..Len(UpperCase) : SubSeq(UpperCase, i, i) = c
    THEN LET i == CHOOSE j \in 1..Len(UpperCase) : SubSeq(UpperCase, j, j) = c
         IN  SubSeq(LowerCase, i, i)
    ELSE c

RECURSIVE Lower(_)
Lower(s) ==
    IF Len(s) = 0 THEN "" ELSE LowerChar(SubSeq(s, 1, 1)) \o Lower(SubSeq(s, 2, Len(s)))

Contains(s, keyword) ==
    \E i \in 1..(Len(s) - Len(keyword) + 1) : SubSeq(s, i, i + Len(keyword) - 1) = keyword

AnyKeyword(keywords, s) == \E keyword \in keywords : Contains(s, keyword)

-----------------------------------------------------------------------------
(* A generated text.  The text is a sequence of tokens, each standing for a   *)
(* piece of text the patterns of the extractor treat as a unit:               *)
(*   cart_glyph   the cart emoji                                              *)
(*   bold_add     **ADD TO CART**:                                            *)
(*   plain_add    ADD TO CART:                                                *)
(*   product_id   Product ID <id>                                             *)
(*   size         , Size: <text>      (written right after the token before)  *)
(*   quantity     , Quantity: <n>     (written right after the token before)  *)
(*   citation     **<name>** (ID: <id>) - <currency><price>                   *)
(*   phrase       a sentence of prose                                         *)
(* No token holds a comma other than the comma size and quantity start with.  *)

DirectiveForms == {"glyph_bold", "plain", "bold"}
TextIds == {1, 9}
SizeTexts == {"", ".5 lb"}          \* "": the directive has no size
QuantityTexts == {0, 2}             \* 0: the directive has no quantity
PriceTexts == {"3757.50", "3757.50."}   \* the second: a full stop ends the sentence
PhraseTexts == {"I can add to your cart now", "shall I add this for you",
                "Coming right up", "It is a rich dark roast"}

Directives == [kind : {"directive"}, form : DirectiveForms, id : TextIds,
               size : SizeTexts, quantity : QuantityTexts]
Citations == [kind : {"citation"}, id : TextIds, price : PriceTexts]
Phrases == [kind : {"phrase"}, text : PhraseTexts]
Segments == Directives \cup Citations \cup Phrases

Tok(t) == [t |-> t, id |-> 0, text |-> ""]

SegmentTokens(seg) ==
    IF seg.kind = "directive"
    THEN (IF seg.form = "glyph_bold" THEN <<Tok("cart_glyph"), Tok("bold_add")>>
          ELSE IF seg.form = "bold" THEN <<Tok("bold_add")>>
          ELSE <<Tok("plain_add")>>)
         \o <<[Tok("product_id") EXCEPT !.id = seg.id]>>
         \o (IF seg.size = "" THEN <<>> ELSE <<[Tok("size") EXCEPT !.text = seg.size]>>)
         \o (IF seg.quantity = 0 THEN <<>>
             ELSE <<[Tok("quantity") EXCEPT !.id = seg.quantity]>>)
    ELSE IF seg.kind = "citation"
    THEN <<[Tok("citation") EXCEPT !.id = seg.id, !.text = seg.price]>>
    ELSE <<[Tok("phrase") EXCEPT !.text = seg.text]>>

RECURSIVE TextOf(_)
TextOf(segs) == IF segs = <<>> THEN <<>> ELSE SegmentTokens(Head(segs)) \o TextOf(Tail(segs))

-----------------------------------------------------------------------------
(* OrderProcessor.extract_order_intent_from_response *)

TypeAt(text, i) == IF i \in 1..Len(text) THEN text[i].t ELSE "end"

\* Where `Product ID <id>` stands when add_to_cart_pattern (primary) or
\* add_to_cart_alt_pattern matches from token i; 0 when it does not.
HeaderAt(text, i, primary) ==
    IF primary
    THEN IF TypeAt(text, i) = "cart_glyph" /\ TypeAt(text, i + 1) = "bold_add"
            /\ TypeAt(text, i + 2) = "product_id"
         THEN i + 2 ELSE 0
    ELSE IF TypeAt(text, i) = "plain_add" /\ TypeAt(text, i + 1) = "product_id"
         THEN i + 1 ELSE 0

\* ([^,]+) runs from the size text to the next comma of the text, or its end.
SizeEnd(text, j) ==
    LET commas == {m \in (j + 1)..Len(text) : text[m].t \in {"size", "quantity"}}
    IN  IF commas = {} THEN Len(text) + 1
        ELSE CHOOSE m \in commas : \A n \in commas : m <= n

RunOn(size_text) == size_text \o " ..."

\* The match whose `Product ID <id>` is token p: the groups and the token after it.
MatchFrom(text, p) ==
    LET j == p + 1
        has_size == TypeAt(text, j) = "size"
        q == IF has_size THEN SizeEnd(text, j) ELSE j
        has_quantity == TypeAt(text, q) = "quantity"
    IN  [product_id |-> text[p].id,
         size |-> IF ~has_size THEN ""
                  ELSE IF q = j + 1 THEN text[j].text ELSE RunOn(text[j].text),
         quantity |-> IF has_quantity THEN text[q].id ELSE 0,
         next |-> IF has_quantity THEN q + 1 ELSE q]

RECURSIVE FindAll(_, _, _)
FindAll(text, i, primary) ==
    IF i > Len(text) THEN <<>>
    ELSE LET p == HeaderAt(text, i, primary)
             Rest(match) == <<match>> \o FindAll(text, match.next, primary)
         IN  IF p = 0 THEN FindAll(text, i + 1, primary)
             ELSE Rest(MatchFrom(text, p))

\* re.findall with the primary pattern, and with the alternative one only when
\* the primary pattern matched nothing.
AddMatches(text) ==
    LET OrAlt(add_matches) ==
            IF add_matches /= <<>> THEN add_matches ELSE FindAll(text, 1, FALSE)
    IN  OrAlt(FindAll(text, 1, TRUE))

AddItem(match) ==
    [product_id |-> match.product_id,
     quantity |-> IF match.quantity /= 0 THEN match.quantity ELSE 1,
     size |-> match.size]

order_keywords ==
    {"add to your cart", "would you like to add", "shall I add", "adding to cart",
     "successfully added", "added to cart", "item added", "order confirmed",
     "perfect! adding", "great choice! adding", "excellent! i'll add"}

confirmation_keywords ==
    {"yes, i'll add", "absolutely! adding", "sure thing! adding",
     "coming right up", "perfect choice", "great selection"}

\* any(keyword in response.lower() ...): no keyword spans two tokens, and only a
\* phrase holds the words of one.
KeywordInResponse(keywords, text) ==
    \E i \in 1..Len(text) : text[i].t = "phrase" /\ AnyKeyword(keywords, Lower(text[i].text))

ProductMatches(text) == SelectSeq(text, LAMBDA tok : tok.t = "citation")

\* float(price.replace(',', '')): [0-9.,]+ takes the full stop that ends a
\* sentence with it, and float raises ValueError on "3757.50.".
FloatRaises(price) ==
    Cardinality({i \in 1..Len(price) : SubSeq(price, i, i) = "."}) > 1

SuggestItem(tok) == [product_id |-> tok.id, quantity |-> 1, size |-> ""]

MapSeq(f(_), s) == [i \in 1..Len(s) |-> f(s[i])]

Extraction(raised, action_type, items) ==
    [raised |-> raised, has_order_action |-> action_type /= "none",
     action_type |-> action_type, items |-> items]

ExtractOrderIntentFromResponse(text) ==
    LET is_order_context == KeywordInResponse(order_keywords, text)
        is_confirmation == KeywordInResponse(confirmation_keywords, text)
        Suggest(product_matches) ==
            IF product_matches /= <<>> /\ (is_order_context \/ is_confirmation)
            THEN IF \E i \in 1..Len(product_matches) : FloatRaises(product_matches[i].text)
                 THEN Extraction(TRUE, "none", <<>>)
                 ELSE Extraction(FALSE, "suggest_add_to_cart",
                                 MapSeq(SuggestItem, product_matches))
            ELSE Extraction(FALSE, "none", <<>>)
        Add(add_matches) ==
            IF add_matches /= <<>>
            THEN Extraction(FALSE, "add_to_cart", MapSeq(AddItem, add_matches))
            ELSE Suggest(ProductMatches(text))
    IN  Add(AddMatches(text))

-----------------------------------------------------------------------------
(* llm_utils: classify_intent and extract_payment_method *)

order_taking_keywords ==
    {"i want", "i'd like", "can i get", "can i have", "i'll take", "i'll have",
     "place order", "make order", "order for me", "i need", "give me",
     "add to cart", "put in cart", "add to my order", "include", "also add",
     "i'll order", "let me order", "order now",
     "yes add it", "yes add that", "add it", "add that", "yes please add",
     "take it", "i'll take that", "yes please", "sounds good", "perfect",
     "yes to cart", "add to my cart", "put it in cart", "yes add to cart"}

query_confirmation_keywords ==
    {"yes", "yeah", "yep", "sure", "okay", "ok", "that one", "the first one",
     "the second one", "correct", "right", "exactly"}

checkout_keywords ==
    {"checkout", "complete order", "place my order", "finalize order",
     "proceed to checkout", "ready to order", "confirm order", "finish order",
     "complete my order", "submit order", "process order"}

payment_keywords ==
    {"pay with", "payment method", "i'll pay", "cash payment", "card payment",
     "upi payment", "digital wallet", "credit card", "debit card",
     "phonepe", "gpay", "paytm", "amazon pay", "cash", "card", "upi"}

cart_keywords ==
    {"cart", "basket", "my order", "what's in my", "show my", "remove from",
     "delete from", "change quantity", "update my", "clear cart", "empty cart",
     "view cart", "check cart", "modify order", "edit order"}

order_status_keywords ==
    {"order status", "track order", "where is my", "delivery status",
     "order confirmation", "receipt", "order number", "my orders"}

sales_keywords ==
    {"price", "cost", "available", "stock", "catalog", "shop", "store",
     "discount", "offer", "promo", "new", "recommendation", "suggest",
     "tell me about", "what do you have", "show me", "browse", "menu",
     "do you have", "do you sell", "any", "which", "what kind", "what type",
     "organic coffee", "coffee", "tea", "beans", "drink", "beverage",
     "flavors", "sizes", "options", "varieties", "selection"}

refund_keywords ==
    {"refund", "return", "exchange", "cancel", "money back", "replacement",
     "damaged", "defective", "wrong", "mistake", "complaint", "issue"}

support_keywords ==
    {"help", "support", "contact", "hours", "location", "store", "delivery",
     "shipping", "payment", "account", "login", "register"}

\* len(query.strip().split()): the words of the query, a word starting where a
\* character that is no space follows a space or starts the query.
WordCount(query) ==
    Cardinality({i \in 1..Len(query) :
                    /\ SubSeq(query, i, i) /= " "
                    /\ (i = 1 \/ SubSeq(query, i - 1, i - 1) = " ")})

ClassifyIntentCheckoutFirst(query) ==
    LET query_lower == Lower(query)
    IN  IF AnyKeyword(checkout_keywords, query_lower) THEN "checkout"
        ELSE IF AnyKeyword(order_taking_keywords, query_lower) THEN "order_taking"
        ELSE IF AnyKeyword(query_confirmation_keywords, query_lower)
                /\ WordCount(query) <= 2
        THEN "confirmation"
        ELSE IF AnyKeyword(payment_keywords, query_lower) THEN "payment_method"
        ELSE IF AnyKeyword(cart_keywords, query_lower) THEN "cart_management"
        ELSE IF AnyKeyword(order_status_keywords, query_lower) THEN "order_status"
        ELSE IF AnyKeyword(sales_keywords, query_lower) THEN "sales"
        ELSE IF AnyKeyword(refund_keywords, query_lower) THEN "refund"
        ELSE IF AnyKeyword(support_keywords, query_lower) THEN "support"
        ELSE "general"

ClassifyIntentAnyLength(query) ==
    LET query_lower == Lower(query)
    IN  IF AnyKeyword(order_taking_keywords, query_lower) THEN "order_taking"
        ELSE IF AnyKeyword(query_confirmation_keywords, query_lower) THEN "confirmation"
        ELSE IF AnyKeyword(checkout_keywords, query_lower) THEN "checkout"
        ELSE IF AnyKeyword(payment_keywords, query_lower) THEN "payment_method"
        ELSE IF AnyKeyword(cart_keywords, query_lower) THEN "cart_management"
        ELSE IF AnyKeyword(order_status_keywords, query_lower) THEN "order_status"
        ELSE IF AnyKeyword(sales_keywords, query_lower) THEN "sales"
        ELSE IF AnyKeyword(refund_keywords, query_lower) THEN "refund"
        ELSE IF AnyKeyword(support_keywords, query_lower) THEN "support"
        ELSE "general"

ClassifyIntent(query) ==
    LET query_lower == Lower(query)
    IN  IF AnyKeyword(order_taking_keywords, query_lower) THEN "order_taking"
        ELSE IF AnyKeyword(query_confirmation_keywords, query_lower)
                /\ WordCount(query) <= 2
        THEN "confirmation"
        ELSE IF AnyKeyword(checkout_keywords, query_lower) THEN "checkout"
        ELSE IF AnyKeyword(payment_keywords, query_lower) THEN "payment_method"
        ELSE IF AnyKeyword(cart_keywords, query_lower) THEN "cart_management"
        ELSE IF AnyKeyword(order_status_keywords, query_lower) THEN "order_status"
        ELSE IF AnyKeyword(sales_keywords, query_lower) THEN "sales"
        ELSE IF AnyKeyword(refund_keywords, query_lower) THEN "refund"
        ELSE IF AnyKeyword(support_keywords, query_lower) THEN "support"
        ELSE "general"

\* payment_mapping, in the order of the dict; "" stands for None.
payment_mapping ==
    <<[method |-> "cash",
       keywords |-> {"cash", "cash payment", "pay cash", "pay with cash"}],
      [method |-> "card",
       keywords |-> {"card", "credit card", "debit card", "card payment", "pay with card"}],
      [method |-> "upi",
       keywords |-> {"upi", "phonepe", "gpay", "google pay", "paytm upi", "bhim",
                     "upi payment"}],
      [method |-> "digital_wallet",
       keywords |-> {"paytm", "amazon pay", "mobikwik", "freecharge", "wallet",
                     "digital wallet"}]>>

ExtractPaymentMethodLast(query) ==
    LET query_lower == Lower(query)
        hits == {i \in 1..Len(payment_mapping) :
                    AnyKeyword(payment_mapping[i].keywords, query_lower)}
    IN  IF hits = {} THEN ""
        ELSE payment_mapping[CHOOSE i \in hits : \A j \in hits : i >= j].method

ExtractPaymentMethod(query) ==
    LET query_lower == Lower(query)
        hits == {i \in 1..Len(payment_mapping) :
                    AnyKeyword(payment_mapping[i].keywords, query_lower)}
    IN  IF hits = {} THEN ""
        ELSE payment_mapping[CHOOSE i \in hits : \A j \in hits : i <= j].method

\* should_resolve_product_context and should_use_chat_history
product_context_keywords ==
    {"this", "that", "it", "the one", "same", "different", "another",
     "previous", "last", "earlier", "mentioned", "discussed",
     "compare", "vs", "versus", "difference between",
     "similar", "like that", "alternative"}

reference_keywords ==
    {"this product", "that coffee", "the beans", "same order",
     "my order", "my coffee", "my purchase", "what I bought"}

policy_confirmation_keywords ==
    {"yes", "yeah", "yep", "sure", "okay", "ok", "add it", "add that",
     "take it", "i'll take that", "yes please", "sounds good", "perfect"}

context_keywords ==
    {"continue", "also", "and", "what about", "how about",
     "yes", "no", "okay", "sure", "thanks", "thank you",
     "previous", "earlier", "before", "last time",
     "again", "still", "more", "else", "other"}

ShouldResolveProductContext(query, intent) ==
    LET query_lower == Lower(query)
    IN  \/ intent = "order_taking"
        \/ AnyKeyword(policy_confirmation_keywords, query_lower)
        \/ (intent = "sales"
               /\ AnyKeyword(product_context_keywords \cup reference_keywords, query_lower))
        \/ (intent = "refund" /\ AnyKeyword(reference_keywords, query_lower))
        \/ AnyKeyword(product_context_keywords, query_lower)

ShouldUseChatHistory(query, intent) ==
    LET query_lower == Lower(query)
    IN  \/ intent = "order_taking"
        \/ AnyKeyword(policy_confirmation_keywords, query_lower)
        \/ WordCount(query) <= 3
        \/ AnyKeyword(context_keywords, query_lower)
        \/ intent = "refund"

Intents ==
    {"order_taking", "confirmation", "checkout", "payment_method", "cart_management",
     "order_status", "sales", "refund", "support", "general"}

\* The two decisions of a query, for every intent they can be asked with.
Policies(query) ==
    [intent \in Intents |->
        [use_chat_history |-> ShouldUseChatHistory(query, intent),
         use_product_resolution |-> ShouldResolveProductContext(query, intent)]]

\* is_safe_query: a banned word anywhere in the lower-cased query.
banned_words == {"kill", "murder", "harm", "die", "bomb", "weapon", "stab", "suicide"}

IsSafeQuery(query) == ~AnyKeyword(banned_words, Lower(query))

-----------------------------------------------------------------------------
(* RAGSystem.generate_response *)

\* The result of a turn and what the turn called on its way.
ChatResult(db, intent, branch, retrieval_called, generation_called) ==
    [db |-> db, intent |-> intent, branch |-> branch,
     retrieval_called |-> retrieval_called, generation_called |-> generation_called,
     payment_method |-> "", checkout_stage |-> "", message |-> "",
     ready_for_checkout |-> FALSE, payment_methods |-> <<>>, create_called |-> FALSE,
     success |-> FALSE, process_called |-> FALSE, action_type |-> "none",
     cart_updated |-> FALSE, n_added |-> 0, raised |-> FALSE, error |-> "",
     steps |-> <<>>, chat_history_used |-> FALSE, product_context_used |-> FALSE,
     prompt_intent |-> ""]

\* str(e), the text of an exception, as the messages of the model show it.
ExceptionText == "<exception>"

\* An exception leaves the try block of generate_response.
Propagate(result) == [result EXCEPT !.raised = TRUE]

ApologyReply ==
    "I apologize, but I'm having trouble processing your request right now. Please try again."

ExceptBlockReraise(result) == result

\* except Exception as e: the fixed reply, with str(e) in order_processing.
ExceptBlock(result) ==
    IF result.raised
    THEN [ChatResult(result.db, "error", "error", result.retrieval_called,
                     result.generation_called)
             EXCEPT !.message = ApologyReply, !.error = ExceptionText,
                    !.steps = result.steps]
    ELSE result

\* The turn returns checkout_result as it is.
WithCheckout(result, payment_method, checkout_result) ==
    [result EXCEPT !.db = checkout_result.db,
                   !.payment_method = payment_method,
                   !.checkout_stage = checkout_result.checkout_stage,
                   !.message = checkout_result.message,
                   !.ready_for_checkout = checkout_result.ready_for_checkout,
                   !.payment_methods = checkout_result.payment_methods,
                   !.create_called = checkout_result.create_called,
                   !.success = checkout_result.order_success]

\* `cart_service and session_id`: an absent service and an empty id are falsy.
CartBranch(intent, cart_service, session_id) ==
    intent = "cart_management" /\ cart_service /\ session_id /= ""

CheckoutBranchTypo(intent, cart_service, session_id) ==
    intent = "check_out" /\ cart_service /\ session_id /= ""

CheckoutBranch(intent, cart_service, session_id) ==
    intent = "checkout" /\ cart_service /\ session_id /= ""

PaymentBranch(intent, cart_service, session_id) ==
    intent = "payment_method" /\ cart_service /\ session_id /= ""

\* Step 11 reads the generated text for order actions.
ExtractionRuns(intent, session_id, cart_service) ==
    intent \in {"order_taking", "sales"} /\ session_id /= "" /\ cart_service

\* Steps 5 to 13: retrieval, generation, extraction and the cart action.
\* `generation` is what the generation backend does: it raises or returns a
\* text, of which order_actions is the extraction.
PipelineStepsCartFirst(extraction_runs, has_order_action) ==
    (IF has_order_action THEN <<"cart_action">> ELSE <<>>)
    \o <<"retrieval", "context", "prompt", "generation">>
    \o (IF extraction_runs THEN <<"extraction">> ELSE <<>>)

\* What a turn of the pipeline does, in the order of its statements: steps 5,
\* 6 to 8, 9 and 10, then step 11 with its extraction and its cart action.
PipelineSteps(extraction_runs, has_order_action) ==
    <<"retrieval", "context", "prompt", "generation">>
    \o (IF extraction_runs THEN <<"extraction">> ELSE <<>>)
    \o (IF has_order_action THEN <<"cart_action">> ELSE <<>>)

\* The result of a turn of the pipeline: steps 3 and 4 decide with the intent
\* of the turn, and step 9 and step 13 take the prompt and the agent of it.
PipelineResult(db, intent, policies, steps) ==
    [ChatResult(db, intent, "pipeline", TRUE, TRUE)
        EXCEPT !.chat_history_used = policies[intent].use_chat_history,
               !.product_context_used = policies[intent].use_product_resolution,
               !.prompt_intent = intent,
               !.steps = steps]

Pipeline(db, intent, policies, session_id, cart_service, user_id, generation, order_actions, fail) ==
    IF generation.raised
    THEN Propagate(PipelineResult(db, intent, policies, PipelineSteps(FALSE, FALSE)))
    ELSE IF ExtractionRuns(intent, session_id, cart_service)
    THEN IF order_actions.raised
         THEN Propagate(PipelineResult(db, intent, policies, PipelineSteps(TRUE, FALSE)))
         ELSE IF order_actions.has_order_action
         THEN LET Acted(cart_result) ==
                      [PipelineResult(cart_result.db, intent, policies,
                                      PipelineSteps(TRUE, TRUE))
                          EXCEPT !.process_called = TRUE,
                                 !.action_type = order_actions.action_type,
                                 !.success = cart_result.success,
                                 !.message = cart_result.message,
                                 !.cart_updated = cart_result.cart_updated,
                                 !.n_added = Len(cart_result.items_added)]
              IN  Acted(ProcessCartAction(db, session_id, order_actions, cart_service,
                                          user_id, fail))
         ELSE PipelineResult(db, intent, policies, PipelineSteps(TRUE, FALSE))
    ELSE PipelineResult(db, intent, policies, PipelineSteps(FALSE, FALSE))

RemapIntentNever(classified, session_id) == classified

\* Step 2c: a confirmation continues the sales conversation.
RemapIntent(classified, session_id) ==
    IF classified = "confirmation" /\ session_id /= "" THEN "sales" ELSE classified

\* `classified` is classify_intent(query), payment_method is
\* extract_payment_method(query) and policies is Policies(query). The checkout
\* calls pass no user_id, and an OrderService the turn constructs.
TryBlock(db, classified, payment_method, policies, session_id, cart_service, user_id, generation, order_actions, fail) ==
    IF CartBranch(classified, cart_service, session_id)
    THEN LET Shown(cart_summary) ==
                 [ChatResult(cart_summary.db, classified, "cart_management", FALSE, FALSE)
                     EXCEPT !.message = IF cart_summary.kind = "cart" THEN "CART SUMMARY"
                                        ELSE IF cart_summary.kind = "empty"
                                        THEN "Your cart is currently empty. Would you like to browse our menu?"
                                        ELSE "Your cart is empty."]
         IN  Shown(GetCartSummary(db, session_id, cart_service, user_id,
                                  StmtAt(fail, "summary")))
    ELSE IF CheckoutBranch(classified, cart_service, session_id)
    THEN WithCheckout(ChatResult(db, classified, "checkout", FALSE, FALSE), "",
                      ProcessCheckoutRequest(db, session_id, "", NoUser, cart_service,
                                             TRUE, fail))
    ELSE LET intent == RemapIntent(classified, session_id)
         IN  IF PaymentBranch(intent, cart_service, session_id)
             THEN WithCheckout(ChatResult(db, intent, "payment_method", FALSE, FALSE),
                               payment_method,
                               ProcessCheckoutRequest(db, session_id, payment_method, NoUser,
                                                      cart_service, TRUE, fail))
             ELSE Pipeline(db, intent, policies, session_id, cart_service, user_id,
                           generation, order_actions, fail)

GenerateResponse(db, classified, payment_method, policies, session_id, cart_service, user_id, generation, order_actions, fail) ==
    ExceptBlock(TryBlock(db, classified, payment_method, policies, session_id,
                         cart_service, user_id, generation, order_actions, fail))

-----------------------------------------------------------------------------
(* Inputs of the calls *)

ItemArgs ==
    {[product_id |-> 1, quantity |-> 1, size |-> ".5 lb"],
     [product_id |-> 9, quantity |-> 1, size |-> ".5 lb"]}

ItemLists == UNION {[1..n -> ItemArgs] : n \in 0..MaxItems}

ActionArgs ==
    {NoAction} \cup
    [has_order_action : {TRUE}, action_type : {"add_to_cart"}, items : ItemLists]

FailAt(site, stmts, ks) == [site : {site}, stmt : stmts, k : ks]

\* One statement of each stretch of add_to_cart between two writes: before the
\* cart row is read, before the line is written, after the line is written and
\* after the totals are written. The loop stops at the first exception, so the
\* failing add_to_cart is the one of the last item of the list.
AddFails(n) ==
    {NoFail} \cup
    FailAt("add_to_cart", {"select_cart", "write_item", "update_totals", "return_get_cart"},
           {n} \ {0})

SaveFails ==
    {NoFail}
    \cup FailAt("get_cart", {"select_cart", "select_items"}, {0})
    \cup FailAt("create_order", {"insert_order", "last_insert_id", "select_order"}, {0})
    \cup FailAt("create_order", {"insert_item"}, 1..MaxItems)
    \cup FailAt("clear_cart", {"select_cart", "delete_items", "update_totals"}, {0})

CheckoutFails == SaveFails \cup FailAt("summary", {"select_cart", "select_items"}, {0})

WithinBounds(db) ==
    /\ Len(db.orders) <= MaxOrders
    /\ \A u \in Users : \A i \in 1..Len(db.cart_items[u]) :
           db.cart_items[u][i].quantity <= MaxQty

Store(db) ==
    /\ carts' = db.carts
    /\ cart_items' = db.cart_items
    /\ orders' = db.orders
    /\ order_items' = db.order_items

\* A fail that names a statement the call does not reach is the call with
\* no failure. No statement is reached without both services and a user id, nor for an
\* item the list does not have.
Reaches(fail, services, user_id, n) ==
    fail = NoFail \/ (services /\ user_id /= NoUser /\ fail.k <= n)

\* The fields of `last`; a call sets the ones it has and leaves the defaults.
NoCall ==
    [op |-> "init", user_id |-> NoUser, payment_method |-> "",
     cart_service |-> FALSE,
     success |-> FALSE, message |-> "", checkout_stage |-> "",
     ready_for_checkout |-> FALSE, payment_methods |-> <<>>,
     create_called |-> FALSE, cart_updated |-> FALSE, n_added |-> 0,
     session_id |-> "", classified |-> "", intent |-> "", branch |-> "",
     retrieval_called |-> FALSE, generation_called |-> FALSE,
     process_called |-> FALSE, action_type |-> "none",
     raised |-> FALSE, error |-> "", steps |-> <<>>, generation_raised |-> FALSE,
     safe |-> TRUE, subtotal |-> 0, tax_amount |-> 0, total_amount |-> 0,
     query |-> "", chat_history_used |-> FALSE, product_context_used |-> FALSE,
     prompt_intent |-> "", order_service |-> FALSE, item_count |-> 0,
     chat_context |-> <<>>, product_context |-> 0]

-----------------------------------------------------------------------------
(* The calls *)

CallProcessCartAction ==
    \E session_id \in SessionArgs, user_id \in UserArgs, cart_service \in BOOLEAN,
       action_data \in ActionArgs :
      \E fail \in AddFails(Len(action_data.items)) :
        \E r \in {ProcessCartAction(DB, session_id, action_data, cart_service, user_id,
                                     fail)} :
            /\ Reaches(fail, cart_service, user_id, Len(action_data.items))
            /\ WithinBounds(r.db)
            /\ Store(r.db)
            /\ last' = [op |-> "process_cart_action",
                        user_id |-> user_id, cart_service |-> cart_service,
                        success |-> r.success, message |-> r.message,
                        cart_updated |-> r.cart_updated,
                        n_added |-> Len(r.items_added)] @@ NoCall

CallSaveChatOrderToDatabase ==
    \E session_id \in SessionArgs, user_id \in UserArgs, cart_service \in BOOLEAN,
       order_service \in BOOLEAN, payment_method \in ValidPaymentArgs, fail \in SaveFails :
        \E r \in {SaveChatOrderToDatabase(DB, session_id, payment_method, user_id,
                                           cart_service, order_service, fail)} :
            /\ Reaches(fail, cart_service /\ order_service, user_id, Len(cart_items[1]))
            /\ WithinBounds(r.db)
            /\ Store(r.db)
            /\ last' = [op |-> "save_chat_order_to_database",
                        user_id |-> user_id, cart_service |-> cart_service,
                        payment_method |-> payment_method,
                        success |-> r.success, message |-> r.message,
                        create_called |-> r.create_called] @@ NoCall

\* create_checkout_summary(session_id, cart_service): it has no user_id
\* parameter and reaches no statement of the store.
CallCreateCheckoutSummary ==
    \E session_id \in SessionArgs, cart_service \in BOOLEAN :
        \E r \in {CreateCheckoutSummary(DB, session_id, cart_service, "none")} :
            /\ WithinBounds(r.db)
            /\ Store(r.db)
            /\ last' = [op |-> "create_checkout_summary",
                        session_id |-> session_id, cart_service |-> cart_service,
                        ready_for_checkout |-> r.ready_for_checkout,
                        message |-> r.message,
                        subtotal |-> r.subtotal, tax_amount |-> r.tax_amount,
                        total_amount |-> r.total_amount] @@ NoCall

CallProcessCheckoutRequest ==
    \E session_id \in SessionArgs, user_id \in UserArgs, cart_service \in BOOLEAN,
       order_service \in BOOLEAN, payment_method \in PaymentArgs, fail \in CheckoutFails :
        \E r \in {ProcessCheckoutRequest(DB, session_id, payment_method, user_id,
                                          cart_service, order_service, fail)} :
            /\ Reaches(fail, cart_service /\ order_service, user_id, Len(cart_items[1]))
            /\ WithinBounds(r.db)
            /\ Store(r.db)
            /\ last' = [op |-> "process_checkout_request",
                        user_id |-> user_id, cart_service |-> cart_service,
                        order_service |-> order_service,
                        total_amount |-> r.total_amount, item_count |-> r.item_count,
                        payment_method |-> payment_method,
                        success |-> r.order_success, message |-> r.message,
                        checkout_stage |-> r.checkout_stage,
                        ready_for_checkout |-> r.ready_for_checkout,
                        payment_methods |-> r.payment_methods,
                        create_called |-> r.create_called] @@ NoCall

-----------------------------------------------------------------------------
Pending == Extraction(FALSE, "pending", <<>>)

Procs == {1, 2}

NoRow == [found |-> FALSE, quantity |-> 0]

\* A request that has not been received yet, with the locals of the calls.
NotStarted ==
    [op |-> "none", pc |-> "start", product_id |-> 0, quantity |-> 0,
     existing |-> NoRow, cart_data |-> EmptySnapshot, order_number |-> "",
     success |-> FALSE]

InitStore ==
    /\ carts = [u \in Users |-> [exists |-> FALSE, session_id |-> "",
                                 total_items |-> 0, total_amount |-> 0]]
    /\ cart_items = [u \in Users |-> <<>>]
    /\ orders = <<>>
    /\ order_items = <<>>
    /\ order_numbers = <<>>
    /\ last = NoCall
    /\ procs = [p \in Procs |-> NotStarted]
    /\ clock = 0
    /\ chat_messages = <<>>

Unclassified == [intent |-> "pending", payment_method |-> "pending"]

Init ==
    /\ InitStore
    /\ response = <<>>
    /\ extracted = Pending
    /\ query_arg = ""
    /\ classification = Unclassified

Next ==
    \/ CallProcessCartAction /\ UNCHANGED <<response, extracted, query_arg, classification, concurrent, chat_messages>>
    \/ CallSaveChatOrderToDatabase /\ UNCHANGED <<response, extracted, query_arg, classification, concurrent, chat_messages>>
    \/ CallProcessCheckoutRequest /\ UNCHANGED <<response, extracted, query_arg, classification, concurrent, chat_messages>>
    \/ CallCreateCheckoutSummary /\ UNCHANGED <<response, extracted, query_arg, classification, concurrent, chat_messages>>

Spec == Init /\ [][Next]_vars

-----------------------------------------------------------------------------
(* The extractor alone, on every generated text of at most MaxSegs segments *)

Texts == UNION {[1..n -> Segments] : n \in 0..MaxSegs}

InitExtract ==
    /\ InitStore
    /\ response \in Texts
    /\ extracted = Pending
    /\ query_arg = ""
    /\ classification = Unclassified

Extract ==
    /\ extracted = Pending
    /\ extracted' = ExtractOrderIntentFromResponse(TextOf(response))
    /\ UNCHANGED <<carts, cart_items, orders, order_items, last, response, query_arg,
                   classification, concurrent, chat_messages>>

NextExtract == Extract

SpecExtract == InitExtract /\ [][NextExtract]_vars

-----------------------------------------------------------------------------
(* classify_intent and extract_payment_method alone, on every query of at   *)
(* most MaxWords phrases                                                     *)

\* A phrase of every category of classify_intent, of every payment method, and
\* one that no keyword list holds.
QueryWords ==
    {"i want", "yes", "that one", "Checkout", "cash", "Credit Card", "phonepe",
     "paytm", "cart", "receipt", "price", "refund", "help", "hello",
     "checkout", "place order"}

\* The phrases the checkout summary, the cart summary reply and the reply
\* after an add tell the user to say to go on to checkout.
ProceedPhrases == {"checkout", "place order"}

RECURSIVE Join(_)
Join(words) ==
    IF words = <<>> THEN ""
    ELSE IF Len(words) = 1 THEN words[1]
    ELSE words[1] \o " " \o Join(Tail(words))

QueryTexts == {Join(words) : words \in UNION {[1..n -> QueryWords] : n \in 1..MaxWords}}

InitClassify ==
    /\ InitStore
    /\ response = <<>>
    /\ extracted = Pending
    /\ query_arg \in QueryTexts
    /\ classification = Unclassified

CallClassifyIntent ==
    /\ classification.intent = "pending"
    /\ classification' = [classification EXCEPT !.intent = ClassifyIntent(query_arg)]
    /\ UNCHANGED <<carts, cart_items, orders, order_items, last, response, extracted,
                   query_arg, concurrent, chat_messages>>

CallExtractPaymentMethod ==
    /\ classification.payment_method = "pending"
    /\ classification' =
           [classification EXCEPT !.payment_method = ExtractPaymentMethod(query_arg)]
    /\ UNCHANGED <<carts, cart_items, orders, order_items, last, response, extracted,
                   query_arg, concurrent, chat_messages>>

NextClassify == CallClassifyIntent \/ CallExtractPaymentMethod

SpecClassify == InitClassify /\ [][NextClassify]_vars

-----------------------------------------------------------------------------
(* The turns of a chat: generate_response on queries of every intent *)

Queries ==
    {"i want the house blend", "place order", "yes", "Checkout", "place my order",
     "pay with cash", "Credit Card", "payment method", "show my cart",
     "tell me about coffee", "hello", "i want a killer espresso", "right,my order"}

ChatSessionArgs == {"", "s1"}       \* "": generate_response(query), no session

\* The generated texts of the turns: a directive for a catalog product, one for
\* an unknown product, a citation with a corroborating phrase, a citation whose
\* price ends the sentence, and prose.
Replies ==
    {<<[kind |-> "directive", form |-> "glyph_bold", id |-> 1, size |-> ".5 lb",
        quantity |-> 0]>>,
     <<[kind |-> "directive", form |-> "plain", id |-> 9, size |-> "", quantity |-> 0]>>,
     <<[kind |-> "citation", id |-> 1, price |-> "3757.50"],
       [kind |-> "phrase", text |-> "I can add to your cart now"]>>,
     <<[kind |-> "citation", id |-> 1, price |-> "3757.50."],
       [kind |-> "phrase", text |-> "Coming right up"]>>,
     <<[kind |-> "phrase", text |-> "It is a rich dark roast"]>>}

Generations ==
    [raised : {FALSE}, text : Replies] \cup {[raised |-> TRUE, text |-> <<>>]}

\* The pure functions of a turn on the queries and texts of the model.
IntentOf == [query \in Queries |-> ClassifyIntent(query)]
PaymentMethodOf == [query \in Queries |-> ExtractPaymentMethod(query)]
SafeOf == [query \in Queries |-> IsSafeQuery(query)]
PoliciesOf == [query \in Queries |-> Policies(query)]
OrderActionsOf ==
    [text \in Replies \cup {<<>>} |-> ExtractOrderIntentFromResponse(TextOf(text))]

Prose == <<[kind |-> "phrase", text |-> "It is a rich dark roast"]>>

\* What the generation backend does in a turn: nothing when the turn returns
\* before step 10; and when step 11 does not read the text, only whether the
\* backend raises matters.
GenerationsOf(classified, session_id, cart_service) ==
    LET intent == RemapIntent(classified, session_id)
    IN  IF \/ CartBranch(classified, cart_service, session_id)
           \/ CheckoutBranch(classified, cart_service, session_id)
           \/ PaymentBranch(intent, cart_service, session_id)
        THEN {[raised |-> FALSE, text |-> <<>>]}
        ELSE IF ExtractionRuns(intent, session_id, cart_service) THEN Generations
        ELSE {g \in Generations : g.raised \/ g.text = Prose}

\* The statements a turn can reach: those of add_to_cart for the first item of
\* the text's order action, and the reads of the cart summary.
ChatFails(user_id, order_actions) ==
    {NoFail}
    \cup (IF user_id /= NoUser /\ order_actions.items /= <<>>
          THEN FailAt("add_to_cart", {"write_item", "return_get_cart"}, {1}) ELSE {})
    \cup (IF user_id /= NoUser /\ order_actions.items = <<>>
          THEN FailAt("summary", {"select_items"}, {0}) ELSE {})

CallGenerateResponse ==
    \E query \in Queries, session_id \in ChatSessionArgs, user_id \in UserArgs,
       cart_service \in BOOLEAN :
      \E generation \in GenerationsOf(IntentOf[query], session_id, cart_service) :
        \E fail \in ChatFails(user_id, OrderActionsOf[generation.text]) :
        \E r \in {GenerateResponse(DB, IntentOf[query], PaymentMethodOf[query],
                                    PoliciesOf[query], session_id, cart_service,
                                    user_id, generation,
                                    OrderActionsOf[generation.text], fail)} :
            /\ WithinBounds(r.db)
            /\ Store(r.db)
            /\ last' = [op |-> "generate_response",
                        user_id |-> user_id, cart_service |-> cart_service,
                        session_id |-> session_id,
                        classified |-> IntentOf[query], intent |-> r.intent,
                        branch |-> r.branch,
                        retrieval_called |-> r.retrieval_called,
                        generation_called |-> r.generation_called,
                        payment_method |-> r.payment_method,
                        checkout_stage |-> r.checkout_stage, message |-> r.message,
                        ready_for_checkout |-> r.ready_for_checkout,
                        payment_methods |-> r.payment_methods,
                        create_called |-> r.create_called, success |-> r.success,
                        process_called |-> r.process_called,
                        action_type |-> r.action_type,
                        cart_updated |-> r.cart_updated, n_added |-> r.n_added,
                        raised |-> r.raised, error |-> r.error,
                        steps |-> r.steps,
                        generation_raised |-> generation.raised,
                        safe |-> SafeOf[query], query |-> query,
                        chat_history_used |-> r.chat_history_used,
                        product_context_used |-> r.product_context_used,
                        prompt_intent |-> r.prompt_intent] @@ NoCall

NextChat == CallGenerateResponse /\ UNCHANGED <<response, extracted, query_arg, classification, concurrent, chat_messages>>

SpecChat == Init /\ [][NextChat]_vars

-----------------------------------------------------------------------------
(* Requests served side by side on one store. Every statement of db_service
   is committed on its own (execute_update), no call holds a transaction or
   a lock, so another request's statements may fall between any two of one
   call. Each request makes one call; a step is the stretch of a call up to
   and including one of its reads or writes of cart_items and orders. *)

MaxClock == 1       \* seconds the clock may advance

SizeArg == ".5 lb"

\* query_check of add_to_cart: the line of that product and size, if any.
SelectExisting(items, product_id, selected_size) ==
    LET existing == SameLine(items, product_id, selected_size)
    IN  IF existing = {} THEN NoRow
        ELSE [found |-> TRUE,
              quantity |-> items[CHOOSE j \in existing : \A m \in existing : j <= m].quantity]

\* The write of add_to_cart, from the row read before: UPDATE ... WHERE id = ?
\* of that row with the quantity computed from the one read (no row is
\* written when it is no longer there), or INSERT of a new row.
WriteItemAfter(items, existing, product_id, quantity, selected_size) ==
    LET rows == SameLine(items, product_id, selected_size)
    IN  IF existing.found
        THEN IF rows = {} THEN items
             ELSE LET i == CHOOSE j \in rows : \A m \in rows : j <= m
                      new_quantity == existing.quantity + quantity
                  IN  [items EXCEPT ![i].quantity = new_quantity,
                                    ![i].total_price = Price(product_id) * new_quantity]
        ELSE Append(items, NewLine(product_id, quantity, selected_size))

\* generate_order_number: the clock, to the second.
GenerateOrderNumber(now) == "ORD-" \o ToString(now)

Range(s) == {s[i] : i \in 1..Len(s)}

AddSelectExisting(p) ==
    /\ procs[p].pc = "start"
    /\ \E product_id \in Products, quantity \in 1..MaxQty, user_id \in Users,
          session_id \in SessionArgs :
        \E c \in {GetOrCreateCart(DB, user_id, session_id, "none")} :
            /\ Store(c.db)
            /\ procs' = [procs EXCEPT ![p] =
                   [@ EXCEPT !.op = "add_to_cart", !.pc = "write_item",
                             !.product_id = product_id, !.quantity = quantity,
                             !.existing = SelectExisting(c.db.cart_items[user_id],
                                                         product_id, SizeArg)]]
    /\ UNCHANGED <<last, clock, order_numbers>>

AddWriteItem(p) ==
    /\ procs[p].pc = "write_item"
    /\ \E user_id \in Users :
        cart_items' = [cart_items EXCEPT ![user_id] =
                          WriteItemAfter(@, procs[p].existing, procs[p].product_id,
                                         procs[p].quantity, SizeArg)]
    /\ procs' = [procs EXCEPT ![p].pc = "update_totals"]
    /\ UNCHANGED <<carts, orders, order_items, last, clock, order_numbers>>

AddUpdateTotals(p) ==
    /\ procs[p].pc = "update_totals"
    /\ \E user_id \in Users :
        \E t \in {UpdateCartTotals(DB, user_id, "none")} : Store(t.db)
    /\ procs' = [procs EXCEPT ![p].pc = "done", ![p].success = TRUE]
    /\ UNCHANGED <<last, clock, order_numbers>>

SaveGetCart(p) ==
    /\ procs[p].pc = "start"
    /\ \E user_id \in Users, session_id \in SessionArgs :
        \E g \in {GetCart(DB, session_id, user_id, "none")} :
            /\ Store(g.db)
            /\ procs' = [procs EXCEPT ![p] =
                   [@ EXCEPT !.op = "save_chat_order_to_database",
                             !.pc = IF g.value.items = <<>> THEN "done" ELSE "create_order",
                             !.cart_data = g.value]]
    /\ UNCHANGED <<last, clock, order_numbers>>

\* create_order. The schema of table orders is not part of the code: with a
\* UNIQUE order_number the INSERT of a number already stored raises, and
\* save_chat_order_to_database catches it; without, the row is stored.
SaveCreateOrder(p) ==
    /\ procs[p].pc = "create_order"
    /\ \E user_id \in Users, session_id \in SessionArgs, payment_method \in ValidPaymentArgs,
          unique \in BOOLEAN :
        \E order_number \in {GenerateOrderNumber(clock)} :
            IF unique /\ order_number \in Range(order_numbers)
            THEN /\ procs' = [procs EXCEPT ![p].pc = "done",
                                           ![p].order_number = order_number]
                 /\ UNCHANGED <<carts, cart_items, orders, order_items, order_numbers>>
            ELSE \E c \in {CreateOrder(DB, OrderData(session_id, payment_method, user_id,
                                                     procs[p].cart_data), "none", 0)} :
                     /\ Store(c.db)
                     /\ order_numbers' = Append(order_numbers, order_number)
                     /\ procs' = [procs EXCEPT ![p].pc = "clear_cart",
                                               ![p].order_number = order_number,
                                               ![p].success = TRUE]
    /\ UNCHANGED <<last, clock>>

SaveClearCart(p) ==
    /\ procs[p].pc = "clear_cart"
    /\ \E user_id \in Users, session_id \in SessionArgs :
        \E c \in {ClearCart(DB, session_id, user_id, "none")} : Store(c.db)
    /\ procs' = [procs EXCEPT ![p].pc = "done"]
    /\ UNCHANGED <<last, clock, order_numbers>>

Tick ==
    /\ clock < MaxClock
    /\ clock' = clock + 1
    /\ UNCHANGED <<carts, cart_items, orders, order_items, last, procs, order_numbers>>

\* The store before the requests arrive: no cart yet, or a cart that one
\* add_to_cart has filled.
EmptyStore ==
    [carts |-> [u \in Users |-> [exists |-> FALSE, session_id |-> "",
                                 total_items |-> 0, total_amount |-> 0]],
     cart_items |-> [u \in Users |-> <<>>],
     orders |-> <<>>,
     order_items |-> <<>>]

InitConcurrent ==
    /\ \E r \in {Ok(EmptyStore, TRUE),
                  AddToCart(EmptyStore, "s1", 1, 1, 1, SizeArg, "none")} :
           /\ carts = r.db.carts
           /\ cart_items = r.db.cart_items
    /\ orders = <<>>
    /\ order_items = <<>>
    /\ order_numbers = <<>>
    /\ last = NoCall
    /\ procs = [p \in Procs |-> NotStarted]
    /\ clock = 0
    /\ chat_messages = <<>>
    /\ response = <<>>
    /\ extracted = Pending
    /\ query_arg = ""
    /\ classification = Unclassified

NextConcurrent ==
    \/ \E p \in Procs : AddSelectExisting(p) /\ UNCHANGED <<response, extracted, query_arg, classification, chat_messages>>
    \/ \E p \in Procs : AddWriteItem(p) /\ UNCHANGED <<response, extracted, query_arg, classification, chat_messages>>
    \/ \E p \in Procs : AddUpdateTotals(p) /\ UNCHANGED <<response, extracted, query_arg, classification, chat_messages>>
    \/ \E p \in Procs : SaveGetCart(p) /\ UNCHANGED <<response, extracted, query_arg, classification, chat_messages>>
    \/ \E p \in Procs : SaveCreateOrder(p) /\ UNCHANGED <<response, extracted, query_arg, classification, chat_messages>>
    \/ \E p \in Procs : SaveClearCart(p) /\ UNCHANGED <<response, extracted, query_arg, classification, chat_messages>>
    \/ Tick /\ UNCHANGED <<response, extracted, query_arg, classification, chat_messages>>

SpecConcurrent == InitConcurrent /\ [][NextConcurrent]_vars

-----------------------------------------------------------------------------
(* The chat endpoint and the context of a turn. A stored message is its
   role and what the patterns of resolve_product_reference find in its
   content: a product citation, an ADD TO CART instruction, or neither
   (prose). A chat context is the ids of the messages it lists, a product
   context the id of the message it is built from (0: the empty text). *)

HistoryLimit == 50      \* get_chat_history(session_id, limit=50)
ContextLimit == 5       \* get_chat_history_context(chat_history, limit=5)
ReferenceWindow == 5    \* chat_history[-5:]

MaxTurns == 54      \* largest number of rows of table chat_messages
MaxMatches == 2     \* largest number of stored replies that are not prose

NoContext == 0

\* get_chat_history: ORDER BY created_at ASC LIMIT ?
GetChatHistory(messages, limit) ==
    SubSeq(messages, 1, IF Len(messages) > limit THEN limit ELSE Len(messages))

\* chat_history[-limit:]
LastOf(chat_history, limit) ==
    IF Len(chat_history) > limit
    THEN SubSeq(chat_history, Len(chat_history) - limit + 1, Len(chat_history))
    ELSE chat_history

GetChatHistoryContext(chat_history) ==
    LET recent_messages == LastOf(chat_history, ContextLimit)
    IN  [i \in 1..Len(recent_messages) |-> recent_messages[i].id]

confirmation_words ==
    {"yes", "yeah", "yep", "sure", "okay", "ok", "add it", "add that", "take it"}

reference_words == {"it", "that", "this", "the item", "the product"}

\* product_matches or cart_matches
ProductMentioned(message) ==
    message.role = "assistant" /\ message.kind \in {"citation", "directive"}

ResolveProductReference(query, chat_history) ==
    IF chat_history = <<>> THEN NoContext
    ELSE IF ~AnyKeyword(confirmation_words \cup reference_words, Lower(query))
    THEN NoContext
    ELSE LET window == LastOf(chat_history, ReferenceWindow)
             found == {i \in 1..Len(window) : ProductMentioned(window[i])}
         IN  IF found = {} THEN NoContext
             ELSE window[CHOOSE i \in found : \A j \in found : j <= i].id

HistoryQueries == {"yes", "i want coffee", "hello", "tell me about your coffee beans"}

ReplyKinds == {"prose", "citation", "directive"}

\* Steps 1 to 7 of generate_response for the queries of the model, which no
\* short-circuit branch takes.
ContextOf ==
    [query \in HistoryQueries |->
        LET intent == RemapIntent(ClassifyIntent(query), "s1")
        IN  [intent |-> intent,
             use_chat_history |-> ShouldUseChatHistory(query, intent),
             use_product_resolution |-> ShouldResolveProductContext(query, intent)]]

Matches(messages) == Cardinality({i \in 1..Len(messages) : messages[i].kind /= "prose"})

\* chatbot_endpoint: the history is read, the user message is stored, the
\* turn is generated and its reply is stored. The replies of the model carry
\* no cart action that succeeds (prose, a citation without an order phrase,
\* a directive for a product the catalog does not have), so the cart and
\* order tables are as before.
CallChatbotEndpoint ==
    /\ Len(chat_messages) + 2 <= MaxTurns
    /\ \E query \in HistoryQueries, reply \in ReplyKinds :
        \E chat_history \in {GetChatHistory(chat_messages, HistoryLimit)} :
            /\ chat_messages' =
                   chat_messages \o
                   <<[id |-> Len(chat_messages) + 1, role |-> "user", kind |-> "prose"],
                     [id |-> Len(chat_messages) + 2, role |-> "assistant", kind |-> reply]>>
            /\ Matches(chat_messages') <= MaxMatches
            /\ last' = [op |-> "chatbot_endpoint", query |-> query,
                        session_id |-> "s1", cart_service |-> TRUE,
                        intent |-> ContextOf[query].intent,
                        chat_history_used |-> ContextOf[query].use_chat_history,
                        product_context_used |-> ContextOf[query].use_product_resolution,
                        chat_context |->
                            IF ContextOf[query].use_chat_history
                            THEN GetChatHistoryContext(chat_history) ELSE <<>>,
                        product_context |->
                            IF ContextOf[query].use_product_resolution
                            THEN ResolveProductReference(query, chat_history)
                            ELSE NoContext] @@ NoCall
    /\ UNCHANGED <<carts, cart_items, orders, order_items>>

NextEndpoint == CallChatbotEndpoint /\ UNCHANGED <<response, extracted, query_arg, classification, concurrent>>

SpecEndpoint == Init /\ [][NextEndpoint]_vars

-----------------------------------------------------------------------------
(* Properties *)

CheckoutOps == {"save_chat_order_to_database", "process_checkout_request"}

\* C1: whenever order creation succeeds inside process_checkout_request or
\* save_chat_order_to_database (success = true), the cart of that user is
\* empty when the call returns, whatever clear_cart returns or raises.
C1_SuccessThenEmptyCart ==
    (last.op \in CheckoutOps /\ last.success)
        => \A u \in Users : last.user_id = u => cart_items[u] = <<>>

\* C2: order creation is all-or-nothing: when the call ends without success,
\* the cart is as it was and the order store holds no new order row and no
\* new order item.
C2_FailureLeavesNoOrder ==
    [][(last'.op \in CheckoutOps /\ ~last'.success)
          => (cart_items' = cart_items /\ orders' = orders
              /\ order_items' = order_items)]_vars

\* C3: checkout on an empty cart, or on a cart that cannot be fetched, returns
\* ready_for_checkout = false, leaves checkout_stage at its initial value
\* "summary" and never calls order creation, for every payment_method.
C3_EmptyCartCheckout ==
    [][(/\ last'.op = "process_checkout_request"
        /\ \/ ~last'.cart_service
           \/ last'.user_id = NoUser
           \/ \E u \in Users : last'.user_id = u /\ cart_items[u] = <<>>)
          => (/\ ~last'.ready_for_checkout
              /\ last'.checkout_stage = "summary"
              /\ ~last'.create_called
              /\ orders' = orders /\ order_items' = order_items)]_vars

\* C3 witness: a checkout with a valid payment method on the empty cart of a
\* user, with the cart service present, was refused.
C3_Witness ==
    /\ last.op = "process_checkout_request"
    /\ last.user_id = 1 /\ last.cart_service
    /\ last.payment_method = "cash"
    /\ cart_items[1] = <<>>
    /\ ~last.ready_for_checkout /\ last.checkout_stage = "summary"

NonEmptyCartCheckout ==
    /\ last.op = "process_checkout_request"
    /\ last.cart_service
    /\ \E u \in Users : last.user_id = u /\ cart_items[u] /= <<>>

\* C4: process_checkout_request with a payment method outside cash, card, upi,
\* digital_wallet answers with the error that lists the valid methods (stated
\* here for a cart that holds items), and completes nothing.
C4_InvalidMethodListsValid ==
    (NonEmptyCartCheckout /\ last.payment_method /= ""
     /\ ~ValidMethod(last.payment_method))
        => (/\ last.message =
                 "Invalid payment method. Please choose from: cash, card, upi, digital_wallet"
            /\ last.checkout_stage /= "completed")

\* C5: process_checkout_request on a non-empty cart with no payment method
\* sets checkout_stage = payment_method and returns the four payment options
\* with the checkout summary.
C5_NoMethodShowsOptions ==
    (NonEmptyCartCheckout /\ last.payment_method = "")
        => (/\ last.checkout_stage = "payment_method"
            /\ last.ready_for_checkout
            /\ last.payment_methods = GetAvailablePaymentMethods)

\* C7: process_cart_action returns success = true exactly when at least one
\* item was added to the cart during the call.
C7_SuccessIffItemAdded ==
    last.op = "process_cart_action" => (last.success <=> last.n_added > 0)

ClaimForms == {"glyph_bold", "plain"}

DirectivesOf(segs) == SelectSeq(segs, LAMBDA seg : seg.kind = "directive")

DirectiveItem(seg) ==
    [product_id |-> seg.id,
     quantity |-> IF seg.quantity = 0 THEN 1 ELSE seg.quantity,
     size |-> seg.size]

\* C8: for a text with ADD TO CART directives (with the glyph and bold prefix,
\* or with neither), the extractor returns action_type = add_to_cart with one
\* item per directive, in text order, each with the directive's product id,
\* its size or none, and its quantity, 1 when omitted.
C8_OneItemPerDirective ==
    (/\ extracted /= Pending
     /\ DirectivesOf(response) /= <<>>
     /\ \A i \in 1..Len(response) :
            response[i].kind = "directive" => response[i].form \in ClaimForms)
        => (/\ ~extracted.raised
            /\ extracted.action_type = "add_to_cart"
            /\ extracted.items = MapSeq(DirectiveItem, DirectivesOf(response)))

CitationsOf(segs) == SelectSeq(segs, LAMBDA seg : seg.kind = "citation")

CitationItem(seg) == [product_id |-> seg.id, quantity |-> 1, size |-> ""]

\* The text holds a phrase of one of the two fixed lists, whatever its case.
HasCorroboration(segs) ==
    \E i \in 1..Len(segs) :
        /\ segs[i].kind = "phrase"
        /\ \E keyword \in order_keywords \cup confirmation_keywords :
               Contains(Lower(segs[i].text), Lower(keyword))

\* C9: for a text with no ADD TO CART directive, the extractor returns
\* suggest_add_to_cart with one item of quantity 1 per product citation if and
\* only if the text holds a citation and a corroborating phrase, and
\* has_action = false with no items otherwise.
C9_SuggestIffCorroborated ==
    (extracted /= Pending /\ DirectivesOf(response) = <<>>)
        => (/\ ~extracted.raised
            /\ IF CitationsOf(response) /= <<>> /\ HasCorroboration(response)
               THEN /\ extracted.has_order_action
                    /\ extracted.action_type = "suggest_add_to_cart"
                    /\ extracted.items = MapSeq(CitationItem, CitationsOf(response))
               ELSE /\ ~extracted.has_order_action
                    /\ extracted.items = <<>>)

DirectIntents == {"cart_management", "checkout", "payment_method"}

\* C10, as stated: for every query classified checkout or payment_method, and
\* every query classified cart_management when a cart backend is available,
\* the turn makes no retrieval call and no generation call.
C10_DirectIntentsNeverFallThrough ==
    (/\ last.op = "generate_response"
     /\ \/ last.classified \in {"checkout", "payment_method"}
        \/ last.classified = "cart_management" /\ last.cart_service)
        => (~last.retrieval_called /\ ~last.generation_called)

\* C10, amended: when a cart backend and a session id are both supplied, a
\* query classified checkout, payment_method or cart_management is answered by
\* its own branch, with no retrieval call and no generation call.
C10_DirectWithBackendAndSession ==
    (/\ last.op = "generate_response"
     /\ last.classified \in DirectIntents
     /\ last.cart_service /\ last.session_id /= "")
        => (/\ last.branch = last.classified
            /\ ~last.retrieval_called /\ ~last.generation_called)

\* C10 witness: a checkout turn with a backend and a session returned the
\* checkout result without retrieval or generation.
C10_Witness ==
    /\ last.op = "generate_response"
    /\ last.classified = "checkout"
    /\ last.cart_service /\ last.session_id = "s1"
    /\ last.branch = "checkout" /\ last.checkout_stage = "summary"
    /\ ~last.retrieval_called /\ ~last.generation_called
\* C11: generate_response never raises. Whatever the generation backend, the
\* extractor, the cart store or the order store raises during a turn, the turn
\* returns a result; an exception that reaches the top of the pipeline is
\* answered with the fixed apologetic reply and intent "error".
C11_NeverRaises ==
    last.op = "generate_response"
        => (/\ ~last.raised
            /\ (last.generation_raised \/ last.error /= "")
                   => (last.intent = "error" /\ last.message = ApologyReply))

C11_Witness ==
    /\ last.op = "generate_response"
    /\ last.generation_raised
    /\ last.intent = "error"

\* C12: no field of a result returned to the caller holds the text of an
\* exception: neither the message of a cart or checkout result nor the
\* order_processing data of the turn.
C12_NoExceptionTextReturned ==
    last.op = "generate_response"
        => (/\ ~Contains(last.message, ExceptionText)
            /\ ~Contains(last.error, ExceptionText))

\* C13: is_safe_query is a hard gate of the orchestrator: a turn whose query
\* is_safe_query rejects is refused, calls the generation backend not at all
\* and mutates neither the cart nor the order store.
C13_UnsafeQueryRefused ==
    (last.op = "generate_response" /\ ~last.safe)
        => (/\ ~last.generation_called
            /\ ~last.process_called
            /\ ~last.cart_updated)

\* C14: every snapshot get_cart returns has total_amount equal to the sum of
\* the line totals of its items and total_items equal to the sum of their
\* quantities, in every reachable state of the store.
C14_SnapshotTotals ==
    \A user_id \in Users, session_id \in SessionArgs :
        \A g \in {GetCart(DB, session_id, user_id, "none")} :
            /\ ~g.raised
            /\ g.value.total_amount = SumTotalPrice(g.value.items)
            /\ g.value.total_items = SumQuantity(g.value.items)

\* The categories of classify in their fixed order, each with its keywords;
\* confirmation counts only for a query of at most two tokens.
CategoryOrder ==
    <<[intent |-> "order_taking", keywords |-> order_taking_keywords],
      [intent |-> "confirmation", keywords |-> query_confirmation_keywords],
      [intent |-> "checkout", keywords |-> checkout_keywords],
      [intent |-> "payment_method", keywords |-> payment_keywords],
      [intent |-> "cart_management", keywords |-> cart_keywords],
      [intent |-> "order_status", keywords |-> order_status_keywords],
      [intent |-> "sales", keywords |-> sales_keywords],
      [intent |-> "refund", keywords |-> refund_keywords],
      [intent |-> "support", keywords |-> support_keywords]>>

CategoryMatches(i, text) ==
    /\ AnyKeyword(CategoryOrder[i].keywords, Lower(text))
    /\ CategoryOrder[i].intent = "confirmation" => WordCount(text) <= 2

Classified == classification.intent /= "pending"

\* C15: classify returns the first category, in the fixed order, that the
\* query matches, and general when it matches none; a query with an
\* order_taking keyword is order_taking whatever else it contains.
C15_FirstMatchWins ==
    Classified
        => (/\ \A i \in 1..Len(CategoryOrder) :
                   (/\ CategoryMatches(i, query_arg)
                    /\ \A j \in 1..(i - 1) : ~CategoryMatches(j, query_arg))
                       => classification.intent = CategoryOrder[i].intent
            /\ (\A i \in 1..Len(CategoryOrder) : ~CategoryMatches(i, query_arg))
                   => classification.intent = "general"
            /\ AnyKeyword(order_taking_keywords, Lower(query_arg))
                   => classification.intent = "order_taking")

\* An order_taking keyword together with a keyword of a later category.
C15_Witness ==
    /\ Classified
    /\ classification.intent = "order_taking"
    /\ \E i \in 3..Len(CategoryOrder) : CategoryMatches(i, query_arg)

\* C16: a query of one or two tokens that is a confirmation word classifies
\* as confirmation, and no query of three or more tokens does.
C16_ConfirmationOnlyWhenShort ==
    Classified
        => (/\ (Lower(query_arg) \in query_confirmation_keywords
                    /\ WordCount(query_arg) <= 2)
                   => classification.intent = "confirmation"
            /\ WordCount(query_arg) >= 3 => classification.intent /= "confirmation")

\* A query of three tokens with a confirmation word and no order_taking keyword.
C16_Witness ==
    /\ Classified
    /\ WordCount(query_arg) >= 3
    /\ AnyKeyword(query_confirmation_keywords, Lower(query_arg))
    /\ ~AnyKeyword(order_taking_keywords, Lower(query_arg))
    /\ classification.intent /= "confirmation"

MethodExtracted == classification.payment_method /= "pending"

\* C17: extract_payment_method returns the first method, in the order cash,
\* card, upi, digital_wallet, one of whose keywords occurs in the lower-cased
\* query, and none ("") when no keyword occurs; phonepe alone yields upi.
C17_FirstMethodWins ==
    MethodExtracted
        => (/\ \A i \in 1..Len(payment_mapping) :
                   (/\ AnyKeyword(payment_mapping[i].keywords, Lower(query_arg))
                    /\ \A j \in 1..(i - 1) :
                           ~AnyKeyword(payment_mapping[j].keywords, Lower(query_arg)))
                       => classification.payment_method = payment_mapping[i].method
            /\ (\A i \in 1..Len(payment_mapping) :
                    ~AnyKeyword(payment_mapping[i].keywords, Lower(query_arg)))
                   => classification.payment_method = ""
            /\ classification.payment_method \in {"", "cash", "card", "upi", "digital_wallet"}
            /\ query_arg = "phonepe" => classification.payment_method = "upi")

\* A query that names two methods gets the earlier one.
C17_Witness ==
    /\ MethodExtracted
    /\ Contains(Lower(query_arg), "phonepe")
    /\ Contains(Lower(query_arg), "card")
    /\ classification.payment_method = "card"

\* C18: for a cart that holds items with a positive subtotal,
\* create_checkout_summary yields tax_amount = 18% of the subtotal and
\* total_amount = subtotal + tax_amount, and every order row stores 18% of its
\* total_amount as tax_amount and their sum as final_amount.
C18_TaxOnSubtotal ==
    /\ (/\ last.op = "create_checkout_summary"
         /\ last.cart_service
         /\ \E u \in Users : /\ carts[u].exists
                              /\ carts[u].session_id = last.session_id
                              /\ cart_items[u] /= <<>>
                              /\ carts[u].total_amount > 0)
           => (/\ last.ready_for_checkout
               /\ last.subtotal > 0
               /\ 100 * last.tax_amount = TaxRatePercent * last.subtotal
               /\ last.total_amount = last.subtotal + last.tax_amount)
    /\ \A i \in 1..Len(orders) :
           /\ 100 * orders[i].tax_amount = TaxRatePercent * orders[i].total_amount
           /\ orders[i].final_amount = orders[i].total_amount + orders[i].tax_amount

ConfirmationTurn ==
    /\ last.op = "generate_response"
    /\ last.classified = "confirmation"
    /\ last.intent /= "error"

\* C19: in a turn whose query classifies as confirmation the intent is sales
\* for the rest of the turn (prompt, agent and returned intent), and the
\* chat-history and product-context decisions are those of the original
\* intent confirmation, made before the remap.
C19_PoliciesBeforeRemap ==
    ConfirmationTurn
        => (/\ last.intent = "sales"
            /\ last.prompt_intent = "sales"
            /\ last.chat_history_used =
                   ShouldUseChatHistory(last.query, "confirmation")
            /\ last.product_context_used =
                   ShouldResolveProductContext(last.query, "confirmation"))

\* C19, as the code has it: with a session id the intent of the turn is sales
\* and the two decisions are made after the remap, with sales; without a
\* session id nothing is remapped and the turn stays a confirmation turn.
C19_PoliciesAfterRemap ==
    ConfirmationTurn
        => \A intent \in {IF last.session_id /= "" THEN "sales" ELSE "confirmation"} :
               /\ last.intent = intent
               /\ last.prompt_intent = intent
               /\ last.chat_history_used = ShouldUseChatHistory(last.query, intent)
               /\ last.product_context_used =
                      ShouldResolveProductContext(last.query, intent)

\* A confirmation for which the decision depends on the intent it is made with.
C19_Witness ==
    /\ ConfirmationTurn
    /\ last.session_id /= ""
    /\ last.intent = "sales"
    /\ last.product_context_used
    /\ ~ShouldResolveProductContext(last.query, "confirmation")

StepOrder == <<"retrieval", "context", "prompt", "generation", "extraction", "cart_action">>

Rank(step) == CHOOSE i \in 1..Len(StepOrder) : StepOrder[i] = step

InSequence(steps) ==
    /\ \A i \in 1..Len(steps) : \E k \in 1..Len(StepOrder) : StepOrder[k] = steps[i]
    /\ \A i, j \in 1..Len(steps) : i < j => Rank(steps[i]) < Rank(steps[j])
    /\ \A i \in 1..Len(steps) : \A k \in 1..(Rank(steps[i]) - 1) :
           StepOrder[k] = "extraction" \/ \E j \in 1..(i - 1) : steps[j] = StepOrder[k]

StoreChanged ==
    <<carts, cart_items, orders, order_items>>' /= <<carts, cart_items, orders, order_items>>

C21_CheckoutReadsUsersCart ==
    (/\ last.op = "generate_response"
     /\ last.branch \in {"checkout", "payment_method"}
     /\ \E u \in Users : last.user_id = u /\ cart_items[u] /= <<>>)
        => (/\ last.ready_for_checkout
            /\ last.payment_method = "" => last.checkout_stage = "payment_method"
            /\ ValidMethod(last.payment_method) => last.create_called)

Saves == {p \in Procs : procs[p].op = "save_chat_order_to_database"}
Adds == {p \in Procs : procs[p].op = "add_to_cart"}

\* C22: two checkout requests with a valid payment method, served side by
\* side for the same session and user on a cart that nothing else writes,
\* create at most one order.
C22_AtMostOneOrder ==
    Saves = Procs => Len(orders) <= 1

\* C23: the clear that follows a successful order creation removes only
\* lines that the order just created contains, as it contains them: a line
\* that an add_to_cart wrote between the order's read of the cart and the
\* clear is not removed.
C23_ClearRemovesOnlyOrdered ==
    [][\A p \in Procs :
          (procs[p].pc = "clear_cart" /\ procs'[p].pc = "done")
              => \A u \in Users :
                     Range(cart_items[u]) \subseteq Range(procs[p].cart_data.items)]_vars

\* The quantity of the line before both requests: the smaller of the two
\* quantities read, the first reader having read it.
FirstRead ==
    LET reads == {procs[p].existing.quantity : p \in Procs}
    IN  CHOOSE q \in reads : \A r \in reads : q <= r

\* The quantities the two requests add.
Added == procs[1].quantity + procs[2].quantity

\* C24: when two add_to_cart calls for the same product and size have both
\* returned, whatever the order of their reads and writes, the cart holds one
\* line of that product and size, with both quantities added to the one it
\* had, and the cart's totals count that line.
C24_NoLostAdd ==
    (Adds = Procs /\ \A p \in Procs : procs[p].pc = "done")
        => \A u \in Users :
               /\ Len(cart_items[u]) = 1
               /\ cart_items[u][1].quantity = FirstRead + Added
               /\ carts[u].total_items = FirstRead + Added

\* C30: two creations of an order get two different order numbers, within
\* the same second of the clock too.
C30_DistinctOrderNumbers ==
    \A p, q \in Procs :
        (p /= q /\ procs[p].order_number /= "" /\ procs[q].order_number /= "")
            => procs[p].order_number /= procs[q].order_number

C26_SuggestAddsNothing ==
    [][(/\ last'.op = "generate_response"
        /\ last'.action_type = "suggest_add_to_cart")
           => (/\ cart_items' = cart_items
               /\ ~last'.cart_updated
               /\ last'.n_added = 0)]_vars

\* C27: each phrase that the replies tell the user to say to proceed to
\* checkout, 'checkout' and 'place order', is classified as checkout.
C27_ProceedPhrasesAreCheckout ==
    (query_arg \in ProceedPhrases /\ classification.intent /= "pending")
        => classification.intent = "checkout"

\* The messages of the session before the turn that `last` describes.
Before == SubSeq(chat_messages, 1, Len(chat_messages) - 2)

MostRecentMention(messages) ==
    LET window == LastOf(messages, ReferenceWindow)
        found == {i \in 1..Len(window) : ProductMentioned(window[i])}
    IN  IF found = {} THEN NoContext
        ELSE window[CHOOSE i \in found : \A j \in found : j <= i].id

\* C28: in a turn that needs product-reference resolution, the resolved
\* context is built from the most recent assistant message, among the last 5
\* of the session, that holds a product citation or an ADD TO CART
\* instruction, and it is empty only when none of the 5 holds one.
C28_MostRecentMentionResolved ==
    (last.op = "chatbot_endpoint" /\ last.product_context_used)
        => last.product_context = MostRecentMention(Before)

\* C29: the chat context of a turn that uses the history lists the most
\* recent min(5, n) of the n messages the session had, oldest first.
C29_ContextIsRecentSuffix ==
    (last.op = "chatbot_endpoint" /\ last.chat_history_used)
        => last.chat_context =
               [i \in 1..Len(LastOf(Before, ContextLimit)) |->
                   LastOf(Before, ContextLimit)[i].id]

====
